---- MODULE Spec2Model ----
(***************************************************************************)
(* Model of the greeting service (denmaloyreb/greeting8).                  *)
(*                                                                         *)
(* Two variants of the same program exist in the repository:               *)
(*   variant "A"  src/main.go           greeting(id) : String              *)
(*   variant "B"  src/unnamed/part_000  greeting(id) : Greeting{text,      *)
(*                                      flowers}                           *)
(* The process consists of the main goroutine (set-up, CLI loop, graceful  *)
(* shutdown), the listener goroutine (server.ListenAndServe), the handler  *)
(* of each accepted request, and the environment (the user typing, other   *)
(* HTTP clients, OS signals, the clock of the drain timeout).              *)
(*                                                                         *)
(* Strings that the code scans or formats are sequences of one-character   *)
(* strings, so that scanning and formatting are computed, not assumed.     *)
(***************************************************************************)
EXTENDS Integers, Sequences, FiniteSets, TLC

VARIABLES
    variant,      \* which of the two programs runs: "A" or "B"
    portEnv,      \* os.Getenv("PORT"); "" when unset or empty
    port,         \* the local variable port after defaulting
    greetings,    \* the package-level slice greetings
    flowers,      \* the package-level slice flowers (variant B)
    lifecycle,    \* "Stopped", "Starting", "Listening", "Draining"
    mainPc,       \* main goroutine: "init", "prompt", "await", "shutdown", "exited"
    listenerPc,   \* listener goroutine: "none", "spawned", "serving", "returned"
    inShutdown,   \* http.Server's inShutdown flag, set by Shutdown
    exitStatus,   \* "running", "ok" (main returned), "bindFatal", "shutdownFatal"
    bindAttempts, \* number of times the listener tried to bind the port
    stop,         \* number of signals buffered in the channel stop (capacity 1)
    inflight,     \* requests accepted by the server and not yet answered
    responses,    \* [req, env]: answers written by the server, not yet read
    elapsed,      \* seconds elapsed of the drain timeout
    nInputs,      \* number of lines the CLI loop has read
    nExt,         \* number of requests other clients have sent
    input,        \* this iteration's input (<<>> before the first read and
                  \* after a read error)
    lastStep,     \* what this iteration of the CLI loop did last
    post,         \* <<[port, id, query]>> of this iteration's http.Post, or <<>>
    result,       \* <<this iteration's decoded result and what was printed>>, or <<>>
    answers       \* history: <<id, payload>> of every successful answer

vars == <<variant, portEnv, port, greetings, flowers, lifecycle, mainPc,
          listenerPc, inShutdown, exitStatus, bindAttempts, stop, inflight,
          responses, elapsed, nInputs, nExt, input, lastStep, post, result,
          answers>>

-----------------------------------------------------------------------------
(* Bounds of the model *)

MaxInputs == 2     \* lines the user types
MaxExt == 1        \* requests sent by clients other than the CLI loop

(* Program constants *)

DefaultPort == "8080"
DrainTimeout == 5

-----------------------------------------------------------------------------
(* The catalog *)

InitGreetings ==
    << "greeting-01", "greeting-02", "greeting-03", "greeting-04",
       "greeting-05", "greeting-06", "greeting-07", "greeting-08",
       "greeting-09", "greeting-10" >>

\* flowers with its last entry missing
InitFlowersShort ==
    << "flowers-01", "flowers-02", "flowers-03", "flowers-04",
       "flowers-05", "flowers-06", "flowers-07", "flowers-08",
       "flowers-09" >>

InitFlowers ==
    << "flowers-01", "flowers-02", "flowers-03", "flowers-04",
       "flowers-05", "flowers-06", "flowers-07", "flowers-08",
       "flowers-09", "flowers-10" >>

\* Go slices are indexed from 0
At0(s, i) == s[i + 1]

-----------------------------------------------------------------------------
(* Scanning and formatting of integers *)

DecDigits == <<"0", "1", "2", "3", "4", "5", "6", "7", "8", "9">>
HexDigits == DecDigits \o <<"a", "b", "c", "d", "e", "f">>

\* value of the digit c among the first base digits, or -1
DigitVal(c, base) ==
    LET hits == {k \in 1..base : HexDigits[k] = c}
    IN  IF hits = {} THEN -1 ELSE (CHOOSE k \in hits : TRUE) - 1

\* number of leading characters of s, from position i on, that are digits of base
RECURSIVE RunLen(_, _, _)
RunLen(s, i, base) ==
    IF i > Len(s) \/ DigitVal(s[i], base) < 0 THEN 0
    ELSE 1 + RunLen(s, i + 1, base)

\* value of the n digits of s that start at position i
RECURSIVE DigitsVal(_, _, _, _)
DigitsVal(s, i, n, base) ==
    IF n = 0 THEN 0
    ELSE DigitsVal(s, i, n - 1, base) * base + DigitVal(s[i + n - 1], base)

\* fmt.Sscan(input, &id): an optional sign, an optional base prefix, then the
\* longest run of digits; what follows the digits is left unread.
Sscan(s) ==
    LET signed == Len(s) >= 1 /\ s[1] \in {"+", "-"}
        neg    == Len(s) >= 1 /\ s[1] = "-"
        i0     == IF signed THEN 2 ELSE 1
        zero   == Len(s) >= i0 /\ s[i0] = "0"
        pfx    == IF zero /\ Len(s) > i0 THEN s[i0 + 1] ELSE ""
        base   == IF ~zero THEN 10
                  ELSE IF pfx = "b" THEN 2
                  ELSE IF pfx = "x" THEN 16
                  ELSE 8
        lettered == zero /\ pfx \in {"b", "o", "x"}
        i1     == IF lettered THEN i0 + 2 ELSE IF zero THEN i0 + 1 ELSE i0
        n      == RunLen(s, i1, base)
        v      == DigitsVal(s, i1, n, base)
    IN  IF n = 0 /\ (~zero \/ lettered)
        THEN [ok |-> FALSE, id |-> 0]
        ELSE [ok |-> TRUE, id |-> IF neg THEN -v ELSE v]

\* the decimal digits of a natural number
RECURSIVE FormatNat(_)
FormatNat(n) ==
    IF n < 10 THEN <<DecDigits[n + 1]>>
    ELSE FormatNat(n \div 10) \o <<DecDigits[(n % 10) + 1]>>

\* the verb %d
FormatInt(n) == IF n < 0 THEN <<"-">> \o FormatNat(-n) ELSE FormatNat(n)

\* the engine reading the integer literal of the query document
ParseIntLiteral(s) ==
    LET neg == Len(s) >= 1 /\ s[1] = "-"
        i0  == IF neg THEN 2 ELSE 1
        v   == DigitsVal(s, i0, Len(s) - i0 + 1, 10)
    IN  IF neg THEN -v ELSE v

-----------------------------------------------------------------------------
(* Lookup resolver and query gateway *)

\* an argument value as the engine hands it to the resolver
IntArg(n) == [isInt |-> TRUE, val |-> n]
StrArg == [isInt |-> FALSE, val |-> 0]

\* error messages, token by token; the id is written with %d
ValidationMsg == <<"id must be an integer">>
NotFoundMsgNoId(id) == <<"greeting with ID ", " not found">>
NotFoundMsg(id) == <<"greeting with ID ">> \o FormatInt(id) \o <<" not found">>

\* an index expression slice[index]
Read(slice, index) == [slice |-> slice, index |-> index]

\* the object type Greeting of variant B
GreetingType ==
    [text    |-> [name |-> "String", nonNull |-> TRUE],
     flowers |-> [name |-> "String", nonNull |-> TRUE]]

\* the field greeting of the root query: Type is graphql.String (variant A)
\* or greetingType (variant B), neither wrapped in graphql.NewNonNull; the
\* argument id is graphql.NewNonNull(graphql.Int)
GreetingField ==
    [type |-> [name |-> IF variant = "A" THEN "String" ELSE "Greeting",
               nonNull |-> FALSE],
     args |-> [id |-> [name |-> "Int", nonNull |-> TRUE]]]

\* Resolve with the upper bound of the check off by one
ResolveOffByOne(arg) ==
    IF ~arg.isInt
    THEN [val |-> <<>>, err |-> ValidationMsg, reads |-> <<>>]
    ELSE IF arg.val < 1 \/ arg.val >= Len(greetings)
    THEN [val |-> <<>>, err |-> NotFoundMsg(arg.val), reads |-> <<>>]
    ELSE IF variant = "A"
    THEN [val |-> <<At0(greetings, arg.val - 1)>>, err |-> <<>>,
          reads |-> <<Read("greetings", arg.val - 1)>>]
    ELSE [val |-> <<At0(greetings, arg.val - 1), At0(flowers, arg.val - 1)>>,
          err |-> <<>>,
          reads |-> <<Read("greetings", arg.val - 1),
                      Read("flowers", arg.val - 1)>>]

\* Resolve that ignores the outcome of the type assertion: id is then 0
ResolveNoTypeCheck(arg) ==
    LET id == IF arg.isInt THEN arg.val ELSE 0
    IN  IF id < 1 \/ id > Len(greetings)
        THEN [val |-> <<>>, err |-> NotFoundMsg(id), reads |-> <<>>]
        ELSE IF variant = "A"
        THEN [val |-> <<At0(greetings, id - 1)>>, err |-> <<>>,
              reads |-> <<Read("greetings", id - 1)>>]
        ELSE [val |-> <<At0(greetings, id - 1), At0(flowers, id - 1)>>,
              err |-> <<>>,
              reads |-> <<Read("greetings", id - 1), Read("flowers", id - 1)>>]

\* the Resolve function of greetingField; err = <<>> is the nil error and
\* val = <<>> the nil value; variant A returns the text, variant B the struct
\* GreetingResponse{Text, Flowers}; reads lists the index expressions the
\* taken branch evaluates
Resolve(arg) ==
    IF ~arg.isInt
    THEN [val |-> <<>>, err |-> ValidationMsg, reads |-> <<>>]
    ELSE IF arg.val < 1 \/ arg.val > Len(greetings)
    THEN [val |-> <<>>, err |-> NotFoundMsg(arg.val), reads |-> <<>>]
    ELSE IF variant = "A"
    THEN [val |-> <<At0(greetings, arg.val - 1)>>, err |-> <<>>,
          reads |-> <<Read("greetings", arg.val - 1)>>]
    ELSE [val |-> <<At0(greetings, arg.val - 1), At0(flowers, arg.val - 1)>>,
          err |-> <<>>,
          reads |-> <<Read("greetings", arg.val - 1),
                      Read("flowers", arg.val - 1)>>]

\* the handler executing one query: the response envelope
\* {"data": {"greeting": ...}, "errors": [...]}; a nil value of a field
\* declared non-null would make the whole of data null
Execute(arg) ==
    LET r == Resolve(arg)
    IN  [data     |-> IF GreetingField.type.nonNull /\ r.val = <<>>
                      THEN "null" ELSE "object",
         greeting |-> r.val,
         errors   |-> IF r.err = <<>> THEN <<>> ELSE <<r.err>>]

\* the query document the CLI loop builds with Sprintf
Query(id) ==
    <<"query { greeting(id: ">> \o FormatInt(id) \o
    (IF variant = "A" THEN <<") }">> ELSE <<") { text flowers } }">>)

\* the integer literal of such a document, as the engine reads it
QueryArg(q) == IntArg(ParseIntLiteral(SubSeq(q, 2, Len(q) - 1)))

\* the zero value of result.Data.Greeting
ZeroGreeting == IF variant = "A" THEN <<"">> ELSE <<"", "">>

\* json.Decode of the envelope into the CLI's result struct, and what is printed
Decode(env) ==
    LET g == IF env.greeting = <<>> THEN ZeroGreeting ELSE env.greeting
    IN  [Greeting |-> g,
         Errors   |-> env.errors,
         printed  |-> IF Len(env.errors) > 0 THEN env.errors[1] ELSE g]

\* the URL the CLI loop posts to
PostPort == IF variant = "A" THEN "8080" ELSE port

-----------------------------------------------------------------------------
(* Inputs of the environment *)

PortEnvs == {"", "9090"}

Exit == <<"e", "x", "i", "t">>

\* lines the user types (one token each)
Inputs ==
    { Exit, <<"a", "b", "c">>, <<"1", "a", "b", "c">>,
      <<"1">>, <<"1", "1">>, <<"-", "1">> }

Signals == {"SIGINT", "SIGTERM"}
StopCap == 1

\* arguments of other clients' queries: every id of the catalog, the two ids
\* next to it, and a value that is no integer
ExtArgs == {IntArg(n) : n \in 0..(Len(InitGreetings) + 1)} \cup {StrArg}

Alive == exitStatus = "running"

-----------------------------------------------------------------------------
Init ==
    /\ variant \in {"A", "B"}
    /\ portEnv \in PortEnvs
    /\ port = ""
    /\ greetings = InitGreetings
    /\ flowers = InitFlowers
    /\ lifecycle = "Stopped"
    /\ mainPc = "init"
    /\ listenerPc = "none"
    /\ inShutdown = FALSE
    /\ exitStatus = "running"
    /\ bindAttempts = 0
    /\ stop = 0
    /\ inflight = {}
    /\ responses = {}
    /\ elapsed = 0
    /\ nInputs = 0
    /\ nExt = 0
    /\ input = <<>>
    /\ lastStep = "none"
    /\ post = <<>>
    /\ result = <<>>
    /\ answers = {}

\* main up to the CLI loop: schema, handler, port, server, go func, signal.Notify
StartServer ==
    /\ Alive
    /\ mainPc = "init"
    /\ port' = IF portEnv = "" THEN DefaultPort ELSE portEnv
    /\ listenerPc' = "spawned"
    /\ lifecycle' = "Starting"
    /\ mainPc' = "prompt"
    /\ UNCHANGED <<variant, portEnv, greetings, flowers, inShutdown,
                   exitStatus, bindAttempts, stop, inflight, responses,
                   elapsed, nInputs, nExt, input, lastStep, post, result,
                   answers>>

\* listener goroutine: ListenAndServe binds the port and serves
ListenOk ==
    /\ Alive
    /\ listenerPc = "spawned"
    /\ ~inShutdown
    /\ bindAttempts' = bindAttempts + 1
    /\ listenerPc' = "serving"
    /\ lifecycle' = "Listening"
    /\ UNCHANGED <<variant, portEnv, port, greetings, flowers, mainPc,
                   inShutdown, exitStatus, stop, inflight, responses, elapsed,
                   nInputs, nExt, input, lastStep, post, result, answers>>

\* the bind error is logged and the bind tried again
ListenFailRetry ==
    /\ Alive
    /\ listenerPc = "spawned"
    /\ ~inShutdown
    /\ bindAttempts' = bindAttempts + 1
    /\ UNCHANGED <<variant, portEnv, port, greetings, flowers, lifecycle,
                   mainPc, listenerPc, inShutdown, exitStatus, stop, inflight,
                   responses, elapsed, nInputs, nExt, input, lastStep, post,
                   result, answers>>

\* listener goroutine: ListenAndServe fails to bind; log.Fatalf ends the process
ListenFail ==
    /\ Alive
    /\ listenerPc = "spawned"
    /\ ~inShutdown
    /\ bindAttempts' = bindAttempts + 1
    /\ listenerPc' = "returned"
    /\ exitStatus' = "bindFatal"
    /\ lifecycle' = "Stopped"
    /\ UNCHANGED <<variant, portEnv, port, greetings, flowers, mainPc,
                   inShutdown, stop, inflight, responses, elapsed, nInputs,
                   nExt, input, lastStep, post, result, answers>>

\* listener goroutine: ListenAndServe returns http.ErrServerClosed once
\* Shutdown has been called; the goroutine ends without log.Fatalf
ListenClosed ==
    /\ Alive
    /\ listenerPc \in {"spawned", "serving"}
    /\ inShutdown
    /\ listenerPc' = "returned"
    /\ UNCHANGED <<variant, portEnv, port, greetings, flowers, lifecycle,
                   mainPc, inShutdown, exitStatus, bindAttempts, stop,
                   inflight, responses, elapsed, nInputs, nExt, input,
                   lastStep, post, result, answers>>

\* the OS delivers an interrupt or terminate signal: signal.Notify relays it
\* to the channel stop without blocking (dropped when the buffer is full);
\* nothing in the program receives from stop
Signal(sig) ==
    /\ Alive
    /\ mainPc # "init"
    /\ sig \in Signals
    /\ stop' = IF stop < StopCap THEN stop + 1 ELSE stop
    /\ UNCHANGED <<variant, portEnv, port, greetings, flowers, lifecycle,
                   mainPc, listenerPc, inShutdown, exitStatus, bindAttempts,
                   inflight, responses, elapsed, nInputs, nExt, input,
                   lastStep, post, result, answers>>

-----------------------------------------------------------------------------
(* The CLI loop of the main goroutine; input, id, query and result are
   variables of one iteration *)

\* a read error (end of input) that ends the loop like exit does
ReadErrorBreaks ==
    /\ Alive
    /\ mainPc = "prompt"
    /\ nInputs < MaxInputs
    /\ nInputs' = nInputs + 1
    /\ input' = <<>>
    /\ lastStep' = "readError"
    /\ post' = <<>>
    /\ result' = <<>>
    /\ mainPc' = "shutdown"
    /\ inShutdown' = TRUE
    /\ lifecycle' = "Draining"
    /\ elapsed' = 0
    /\ UNCHANGED <<variant, portEnv, port, greetings, flowers, listenerPc,
                   exitStatus, bindAttempts, stop, inflight, responses, nExt,
                   answers>>

\* fmt.Scanln fails (end of input, empty line, more than one token): continue
ReadError ==
    /\ Alive
    /\ mainPc = "prompt"
    /\ nInputs < MaxInputs
    /\ nInputs' = nInputs + 1
    /\ input' = <<>>
    /\ lastStep' = "readError"
    /\ post' = <<>>
    /\ result' = <<>>
    /\ UNCHANGED <<variant, portEnv, port, greetings, flowers, lifecycle,
                   mainPc, listenerPc, inShutdown, exitStatus, bindAttempts,
                   stop, inflight, responses, elapsed, nExt, answers>>

\* "exit" not recognised: the line falls through to Sscan and is rejected
ReadExitNoBreak ==
    /\ Alive
    /\ mainPc = "prompt"
    /\ nInputs < MaxInputs
    /\ nInputs' = nInputs + 1
    /\ input' = Exit
    /\ lastStep' = "rejected"
    /\ post' = <<>>
    /\ result' = <<>>
    /\ UNCHANGED <<variant, portEnv, port, greetings, flowers, lifecycle,
                   mainPc, listenerPc, inShutdown, exitStatus, bindAttempts,
                   stop, inflight, responses, elapsed, nExt, answers>>

\* the line read is "exit": break, then server.Shutdown(ctx) with the 5 second
\* context: the server stops accepting and waits for its connections to go idle
ReadExit ==
    /\ Alive
    /\ mainPc = "prompt"
    /\ nInputs < MaxInputs
    /\ nInputs' = nInputs + 1
    /\ input' = Exit
    /\ lastStep' = "exit"
    /\ post' = <<>>
    /\ result' = <<>>
    /\ mainPc' = "shutdown"
    /\ inShutdown' = TRUE
    /\ lifecycle' = "Draining"
    /\ elapsed' = 0
    /\ UNCHANGED <<variant, portEnv, port, greetings, flowers, listenerPc,
                   exitStatus, bindAttempts, stop, inflight, responses, nExt,
                   answers>>

\* fmt.Sscan(input, &id) fails: print the hint and continue
ReadNonNumeric(s) ==
    /\ Alive
    /\ mainPc = "prompt"
    /\ nInputs < MaxInputs
    /\ s # Exit
    /\ ~Sscan(s).ok
    /\ nInputs' = nInputs + 1
    /\ input' = s
    /\ lastStep' = "rejected"
    /\ post' = <<>>
    /\ result' = <<>>
    /\ UNCHANGED <<variant, portEnv, port, greetings, flowers, lifecycle,
                   mainPc, listenerPc, inShutdown, exitStatus, bindAttempts,
                   stop, inflight, responses, elapsed, nExt, answers>>

\* the loop posting a second time when the first http.Post fails
ReadNumericRetry(s) ==
    /\ Alive
    /\ mainPc = "prompt"
    /\ nInputs < MaxInputs
    /\ s # Exit
    /\ Sscan(s).ok
    /\ LET id == Sscan(s).id
           q  == Query(id)
           p  == [port |-> PostPort, id |-> id, query |-> q]
       IN  /\ nInputs' = nInputs + 1
           /\ input' = s
           /\ result' = <<>>
           /\ IF lifecycle = "Listening" /\ PostPort = port
              THEN /\ post' = <<p>>
                   /\ inflight' = inflight \cup
                          {[src |-> "cli", n |-> 0, arg |-> QueryArg(q)]}
                   /\ mainPc' = "await"
                   /\ lastStep' = "sent"
              ELSE /\ post' = <<p, p>>
                   /\ inflight' = inflight
                   /\ mainPc' = "prompt"
                   /\ lastStep' = "transportError"
    /\ UNCHANGED <<variant, portEnv, port, greetings, flowers, lifecycle,
                   listenerPc, inShutdown, exitStatus, bindAttempts, stop,
                   responses, elapsed, nExt, answers>>

\* fmt.Sscan succeeds: build the query and http.Post it.  The request reaches
\* the gateway when the server listens on the port posted to; otherwise the
\* connection is refused, the error is logged and the loop continues.
ReadNumeric(s) ==
    /\ Alive
    /\ mainPc = "prompt"
    /\ nInputs < MaxInputs
    /\ s # Exit
    /\ Sscan(s).ok
    /\ LET id == Sscan(s).id
           q  == Query(id)
       IN  /\ nInputs' = nInputs + 1
           /\ input' = s
           /\ post' = <<[port |-> PostPort, id |-> id, query |-> q]>>
           /\ result' = <<>>
           /\ IF lifecycle = "Listening" /\ PostPort = port
              THEN /\ inflight' = inflight \cup
                          {[src |-> "cli", n |-> 0, arg |-> QueryArg(q)]}
                   /\ mainPc' = "await"
                   /\ lastStep' = "sent"
              ELSE /\ inflight' = inflight
                   /\ mainPc' = "prompt"
                   /\ lastStep' = "transportError"
    /\ UNCHANGED <<variant, portEnv, port, greetings, flowers, lifecycle,
                   listenerPc, inShutdown, exitStatus, bindAttempts, stop,
                   responses, elapsed, nExt, answers>>

\* fmt.Sscan succeeds and http.Post succeeds, but the port posted to is held
\* by another process, whose answer is not a JSON envelope: json.Decode
\* fails, the error is logged and the loop continues
ReadNumericUndecodable(s) ==
    /\ Alive
    /\ mainPc = "prompt"
    /\ nInputs < MaxInputs
    /\ s # Exit
    /\ Sscan(s).ok
    /\ ~(lifecycle = "Listening" /\ PostPort = port)
    /\ nInputs' = nInputs + 1
    /\ input' = s
    /\ post' = <<[port |-> PostPort, id |-> Sscan(s).id,
                  query |-> Query(Sscan(s).id)]>>
    /\ result' = <<>>
    /\ lastStep' = "decodeError"
    /\ UNCHANGED <<variant, portEnv, port, greetings, flowers, lifecycle,
                   mainPc, listenerPc, inShutdown, exitStatus, bindAttempts,
                   stop, inflight, responses, elapsed, nExt, answers>>

\* http.Post returns: decode the envelope and print the error or the greeting
CliReceive(resp) ==
    /\ Alive
    /\ mainPc = "await"
    /\ resp \in responses
    /\ resp.req.src = "cli"
    /\ result' = <<Decode(resp.env)>>
    /\ responses' = responses \ {resp}
    /\ mainPc' = "prompt"
    /\ lastStep' = "printed"
    /\ UNCHANGED <<variant, portEnv, port, greetings, flowers, lifecycle,
                   listenerPc, inShutdown, exitStatus, bindAttempts, stop,
                   inflight, elapsed, nInputs, nExt, input, post, answers>>

-----------------------------------------------------------------------------
(* The server and its other clients *)

\* another client (a browser, curl) sends a query while the server accepts;
\* it sends its next query after reading the answer to the previous one
ExtRequest(arg) ==
    /\ Alive
    /\ lifecycle = "Listening"
    /\ nExt < MaxExt
    /\ \A q \in inflight : q.src # "ext"
    /\ \A q \in responses : q.req.src # "ext"
    /\ nExt' = nExt + 1
    /\ inflight' = inflight \cup {[src |-> "ext", n |-> nExt + 1, arg |-> arg]}
    /\ UNCHANGED <<variant, portEnv, port, greetings, flowers, lifecycle,
                   mainPc, listenerPc, inShutdown, exitStatus, bindAttempts,
                   stop, responses, elapsed, nInputs, input, lastStep, post,
                   result, answers>>

\* a handler that runs only while the main goroutine is not waiting for input
HandleRequestInForeground(r) ==
    /\ Alive
    /\ mainPc # "prompt"
    /\ lifecycle \in {"Listening", "Draining"}
    /\ r \in inflight
    /\ LET env == Execute(r.arg)
       IN  /\ responses' = responses \cup {[req |-> r, env |-> env]}
           /\ answers' = IF env.errors = <<>>
                         THEN answers \cup {<<r.arg.val, env.greeting>>}
                         ELSE answers
    /\ inflight' = inflight \ {r}
    /\ UNCHANGED <<variant, portEnv, port, greetings, flowers, lifecycle,
                   mainPc, listenerPc, inShutdown, exitStatus, bindAttempts,
                   stop, elapsed, nInputs, nExt, input, lastStep, post, result>>

\* a handler whose resolver error ends the process
HandleRequestCrashing(r) ==
    /\ Alive
    /\ lifecycle \in {"Listening", "Draining"}
    /\ r \in inflight
    /\ LET env == Execute(r.arg)
       IN  /\ responses' = responses \cup {[req |-> r, env |-> env]}
           /\ answers' = IF env.errors = <<>>
                         THEN answers \cup {<<r.arg.val, env.greeting>>}
                         ELSE answers
           /\ exitStatus' = IF env.errors = <<>> THEN exitStatus
                            ELSE "handlerFatal"
           /\ lifecycle' = IF env.errors = <<>> THEN lifecycle ELSE "Stopped"
    /\ inflight' = inflight \ {r}
    /\ UNCHANGED <<variant, portEnv, port, greetings, flowers, mainPc,
                   listenerPc, inShutdown, bindAttempts, stop, elapsed,
                   nInputs, nExt, input, lastStep, post, result>>

\* a handler that takes the entry it returns out of the catalog
HandleRequestConsuming(r) ==
    /\ Alive
    /\ lifecycle \in {"Listening", "Draining"}
    /\ r \in inflight
    /\ LET env == Execute(r.arg)
       IN  /\ responses' = responses \cup {[req |-> r, env |-> env]}
           /\ answers' = IF env.errors = <<>>
                         THEN answers \cup {<<r.arg.val, env.greeting>>}
                         ELSE answers
           /\ greetings' = IF env.errors = <<>>
                           THEN [greetings EXCEPT ![r.arg.val] = ""]
                           ELSE greetings
    /\ inflight' = inflight \ {r}
    /\ UNCHANGED <<variant, portEnv, port, flowers, lifecycle, mainPc,
                   listenerPc, inShutdown, exitStatus, bindAttempts, stop,
                   elapsed, nInputs, nExt, input, lastStep, post, result>>

\* the handler answers one accepted request; requests in flight when Shutdown
\* is called may still be answered
HandleRequest(r) ==
    /\ Alive
    /\ lifecycle \in {"Listening", "Draining"}
    /\ r \in inflight
    /\ LET env == Execute(r.arg)
       IN  /\ responses' = responses \cup {[req |-> r, env |-> env]}
           /\ answers' = IF env.errors = <<>>
                         THEN answers \cup {<<r.arg.val, env.greeting>>}
                         ELSE answers
    /\ inflight' = inflight \ {r}
    /\ UNCHANGED <<variant, portEnv, port, greetings, flowers, lifecycle,
                   mainPc, listenerPc, inShutdown, exitStatus, bindAttempts,
                   stop, elapsed, nInputs, nExt, input, lastStep, post, result>>

\* the other client reads its answer
ExtReceive(resp) ==
    /\ resp \in responses
    /\ resp.req.src = "ext"
    /\ responses' = responses \ {resp}
    /\ UNCHANGED <<variant, portEnv, port, greetings, flowers, lifecycle,
                   mainPc, listenerPc, inShutdown, exitStatus, bindAttempts,
                   stop, inflight, elapsed, nInputs, nExt, input, lastStep,
                   post, result, answers>>

-----------------------------------------------------------------------------
(* Graceful shutdown *)

\* one second of the context's timeout passes
Tick ==
    /\ Alive
    /\ mainPc = "shutdown"
    /\ elapsed < DrainTimeout
    /\ elapsed' = elapsed + 1
    /\ UNCHANGED <<variant, portEnv, port, greetings, flowers, lifecycle,
                   mainPc, listenerPc, inShutdown, exitStatus, bindAttempts,
                   stop, inflight, responses, nInputs, nExt, input, lastStep,
                   post, result, answers>>

\* server.Shutdown returns nil: no request is in flight; main returns
ShutdownDone ==
    /\ Alive
    /\ mainPc = "shutdown"
    /\ inflight = {}
    /\ mainPc' = "exited"
    /\ exitStatus' = "ok"
    /\ lifecycle' = "Stopped"
    /\ UNCHANGED <<variant, portEnv, port, greetings, flowers, listenerPc,
                   inShutdown, bindAttempts, stop, inflight, responses,
                   elapsed, nInputs, nExt, input, lastStep, post, result,
                   answers>>

\* Shutdown called with a context that is never done: it keeps waiting
ShutdownNoTimeout ==
    /\ Alive
    /\ mainPc = "shutdown"
    /\ inflight # {}
    /\ elapsed = DrainTimeout
    /\ UNCHANGED vars

\* server.Shutdown returns the context's error: the timeout has elapsed with
\* requests still in flight; log.Fatalf reports it and ends the process
ShutdownTimeout ==
    /\ Alive
    /\ mainPc = "shutdown"
    /\ inflight # {}
    /\ elapsed = DrainTimeout
    /\ mainPc' = "exited"
    /\ exitStatus' = "shutdownFatal"
    /\ lifecycle' = "Stopped"
    /\ UNCHANGED <<variant, portEnv, port, greetings, flowers, listenerPc,
                   inShutdown, bindAttempts, stop, inflight, responses,
                   elapsed, nInputs, nExt, input, lastStep, post, result,
                   answers>>

-----------------------------------------------------------------------------
Next ==
    \/ StartServer
    \/ ListenOk
    \/ ListenFail
    \/ ListenClosed
    \/ \E sig \in Signals : Signal(sig)
    \/ ReadError
    \/ ReadExit
    \/ \E s \in Inputs : ReadNonNumeric(s)
    \/ \E s \in Inputs : ReadNumeric(s)
    \/ \E s \in Inputs : ReadNumericUndecodable(s)
    \/ \E resp \in responses : CliReceive(resp)
    \/ \E arg \in ExtArgs : ExtRequest(arg)
    \/ \E r \in inflight : HandleRequest(r)
    \/ \E resp \in responses : ExtReceive(resp)
    \/ Tick
    \/ ShutdownDone
    \/ ShutdownTimeout

Spec == Init /\ [][Next]_vars

\* What the scheduling guarantees: the goroutines of the process take their
\* steps and time passes.  The user need not type, other clients need not
\* send or read, signals need not arrive, and a handler serving a stalled
\* client need not finish.
FairSpec ==
    /\ Spec
    /\ WF_vars(StartServer)
    /\ WF_vars(ListenOk \/ ListenFail \/ ListenClosed)
    /\ WF_vars(\E resp \in responses : CliReceive(resp))
    /\ WF_vars(Tick)
    /\ WF_vars(ShutdownDone)
    /\ WF_vars(ShutdownTimeout)

-----------------------------------------------------------------------------
(* Properties *)

\* the shape of the two resolver errors
IsNotFound(msg) ==
    /\ Len(msg) >= 3
    /\ msg[1] = "greeting with ID "
    /\ msg[Len(msg)] = " not found"

\* d occurs in msg as a run of consecutive characters
Contains(msg, d) ==
    \E i \in 1..Len(msg) :
        i + Len(d) - 1 <= Len(msg) /\ SubSeq(msg, i, i + Len(d) - 1) = d

\* the answer to a query for the integer id is the catalog entry at position
\* id-1 when id is in 1..10, and NotFound without a record otherwise
AnswerByPosition(id, env) ==
    IF id \in 1..10
    THEN /\ env.errors = <<>>
         /\ Len(env.greeting) = (IF variant = "A" THEN 1 ELSE 2)
         /\ env.greeting[1] = InitGreetings[id]
         /\ variant = "B" => env.greeting[2] = InitFlowers[id]
    ELSE /\ env.greeting = <<>>
         /\ Len(env.errors) = 1
         /\ IsNotFound(env.errors[1])

\* C1: every greeting(id) query with id in 1..10 resolves to the catalog entry
\* at position id-1 (text, and in variant B the decoration at the same
\* position); every query with an id outside 1..10 fails with NotFound and
\* returns no record.
C1_ResolveByPosition ==
    /\ \A resp \in responses :
          resp.req.arg.isInt => AnswerByPosition(resp.req.arg.val, resp.env)
    /\ \A id \in -3..14 : AnswerByPosition(id, Execute(IntArg(id)))

C1_Witness ==
    \E r1, r2 \in responses :
        /\ r1.req.arg = IntArg(10)
        /\ r1.env.errors = <<>>
        /\ r2.req.arg = IntArg(-1)
        /\ r2.env.greeting = <<>>

\* C2: every response envelope carries either a greeting or a non-empty list
\* of errors, never both and never neither; for an id out of range the
\* greeting is null and there is exactly one error, whose message contains
\* the id.
C2_EnvelopeExclusive ==
    \A resp \in responses :
        /\ (resp.env.greeting # <<>>) # (resp.env.errors # <<>>)
        /\ (resp.req.arg.isInt /\ resp.req.arg.val \notin 1..10) =>
              /\ resp.env.greeting = <<>>
              /\ Len(resp.env.errors) = 1
              /\ Contains(resp.env.errors[1], FormatInt(resp.req.arg.val))
              /\ resp.req.arg.val = 0 => Contains(resp.env.errors[1], <<"0">>)
              /\ resp.req.arg.val = 11 =>
                    Contains(resp.env.errors[1], <<"1", "1">>)

C2_Witness ==
    /\ \E resp \in responses :
          resp.req.arg = IntArg(0) /\ Len(resp.env.errors) = 1
    /\ \E resp \in responses :
          resp.req.arg = IntArg(11) /\ Len(resp.env.errors) = 1

\* C3: while the service is Listening, an interrupt or terminate signal leads
\* to graceful shutdown: the process reaches Stopped without any further
\* input of the user.  Stated for a signal that arrives before the user has
\* typed anything: the process stops unless the user types.
C3_SignalShutsDown ==
    (lifecycle = "Listening" /\ stop > 0 /\ nInputs = 0)
        ~> (lifecycle = "Stopped" \/ nInputs > 0)

\* the step of the CLI loop that reads the line exit
ReadsExit == nInputs' = nInputs + 1 /\ input' = Exit

\* C4: reading the line exit ends the loop without sending a query for that
\* input, the lifecycle enters Draining, and the process reaches Stopped.
C4_ExitShutsDown ==
    /\ [][ReadsExit => /\ post' = <<>>
                       /\ inflight' = inflight
                       /\ mainPc' = "shutdown"
                       /\ lifecycle' = "Draining"]_vars
    /\ (input = Exit) ~> (lifecycle = "Stopped")

C4_Witness ==
    /\ input = Exit
    /\ lifecycle = "Stopped"
    /\ exitStatus = "ok"
    /\ answers # {}

\* C5: once Draining is entered the process reaches Stopped: either no request
\* is in flight and Shutdown returns, or the 5 seconds elapse with requests
\* unfinished, the shutdown error is reported and the process exits.
C5_DrainingTerminates ==
    /\ [](exitStatus = "shutdownFatal" =>
             /\ lifecycle = "Stopped"
             /\ inflight # {}
             /\ elapsed = 5)
    /\ [](exitStatus = "ok" => lifecycle = "Stopped" /\ inflight = {})
    /\ (lifecycle = "Draining") ~> (lifecycle = "Stopped")

C5_Witness ==
    /\ exitStatus = "shutdownFatal"
    /\ lifecycle = "Stopped"
    /\ inflight # {}

\* C6: the lifecycle only moves along Stopped -> Starting -> Listening ->
\* Draining -> Stopped (the fatal exit on a bind error aside): Draining is
\* entered only from Listening and no state is skipped.
C6_LifecycleOrder ==
    [][(lifecycle' # lifecycle /\ exitStatus' # "bindFatal") =>
          <<lifecycle, lifecycle'>> \in
              { <<"Stopped", "Starting">>, <<"Starting", "Listening">>,
                <<"Listening", "Draining">>, <<"Draining", "Stopped">> }]_vars

\* C7: whatever PORT is, the listener binds that port (8080 when unset or
\* empty) and every query of the CLI loop is posted to the same port, so a
\* numeric input read while Listening reaches the gateway.
C7_PostsToListenerPort ==
    /\ mainPc # "init" => port = (IF portEnv = "" THEN "8080" ELSE portEnv)
    /\ post # <<>> => post[1].port = port

\* C8: a bind failure ends the process in that very step with the bind error:
\* Listening is never reached, the bind is not tried again, and the state of
\* the CLI loop plays no part.
C8_BindFailureFatal ==
    /\ [](bindAttempts <= 1)
    /\ [](exitStatus = "bindFatal" => lifecycle = "Stopped")
    /\ [][bindAttempts' # bindAttempts =>
             \/ lifecycle' = "Listening"
             \/ exitStatus' = "bindFatal" /\ lifecycle' = "Stopped"]_vars
    /\ [][exitStatus = "bindFatal" => UNCHANGED <<lifecycle, bindAttempts>>]_vars

C8_Witness ==
    /\ exitStatus = "bindFatal"
    /\ mainPc = "prompt"
    /\ nInputs > 0

\* the whole token is a decimal integer with an optional sign
IsNumeric(s) ==
    LET i0 == IF Len(s) >= 1 /\ s[1] \in {"+", "-"} THEN 2 ELSE 1
    IN  /\ Len(s) >= i0
        /\ \A i \in i0..Len(s) :
              s[i] \in {"0", "1", "2", "3", "4", "5", "6", "7", "8", "9"}

\* C9: input that is not numeric is rejected locally: no request is sent for
\* it and the loop returns to the prompt with the lifecycle unchanged.
C9_NonNumericRejected ==
    [][(nInputs' = nInputs + 1 /\ input' # <<>> /\ input' # Exit
            /\ ~IsNumeric(input')) =>
          /\ post' = <<>>
          /\ inflight' = inflight
          /\ mainPc' = "prompt"
          /\ lifecycle' = lifecycle]_vars

\* C10: repeated queries for the same id are answered with the same payload,
\* whatever is processed in between or at the same time: no step changes the
\* catalog.
C10_Idempotent ==
    /\ [][greetings' = greetings /\ flowers' = flowers]_vars
    /\ [](\A a, b \in answers : a[1] = b[1] => a[2] = b[2])
    /\ [](\A r1, r2 \in responses : r1.req.arg = r2.req.arg => r1.env = r2.env)
    /\ [](\A resp \in responses :
             resp.env.errors = <<>> =>
                \A a \in answers :
                    a[1] = resp.req.arg.val => a[2] = resp.env.greeting)

C10_Witness ==
    \E r1, r2 \in responses :
        /\ r1.req.src = "cli"
        /\ r2.req.src = "ext"
        /\ r1.req.arg = r2.req.arg
        /\ r1.env.errors = <<>>
        /\ r2.env.errors = <<>>
        /\ nInputs > 1

\* C11: the schema declares greeting(id: Int!): String! (variant A) or
\* greeting(id: Int!): Greeting! with Greeting { text: String!, flowers:
\* String! } (variant B): the argument id is required and non-null, the result
\* type of the field greeting is non-null, so a greeting is never null inside
\* data and a successful response never carries a null greeting.
C11_SchemaNonNull ==
    /\ mainPc # "init" =>
          /\ GreetingField.args.id = [name |-> "Int", nonNull |-> TRUE]
          /\ GreetingField.type.name = (IF variant = "A" THEN "String"
                                        ELSE "Greeting")
          /\ GreetingField.type.nonNull
          /\ variant = "B" => /\ GreetingType.text.nonNull
                              /\ GreetingType.flowers.nonNull
    /\ \A resp \in responses :
          /\ resp.env.errors = <<>> => resp.env.greeting # <<>>
          /\ resp.env.greeting = <<>> => resp.env.data = "null"

\* C12: a request that fails never stops the listener: the step that answers
\* it with errors leaves the lifecycle, the listener and the process as they
\* were, a query with an id in 1..10 answered in any later step succeeds, and
\* the process ends only by a bind error or by the shutdown after exit.
C12_FailuresRecovered ==
    /\ [][\A resp \in responses' \ responses :
             resp.env.errors # <<>> =>
                /\ lifecycle' = lifecycle
                /\ exitStatus' = exitStatus
                /\ listenerPc' = listenerPc
                /\ inShutdown' = inShutdown]_vars
    /\ [][\A resp \in responses' \ responses :
             (resp.req.arg.isInt /\ resp.req.arg.val \in 1..10) =>
                resp.env.errors = <<>> /\ resp.env.greeting # <<>>]_vars
    /\ [](exitStatus # "running" =>
             \/ exitStatus = "bindFatal"
             \/ mainPc = "exited" /\ input = Exit)

C12_Witness ==
    /\ lifecycle = "Listening"
    /\ \E resp \in responses :
          resp.env.errors # <<>> /\ IsNotFound(resp.env.errors[1])
    /\ \E resp \in responses :
          resp.env.errors = <<>> /\ resp.req.arg.val \in 1..10

\* the resolver's error for an argument that is no integer
IsValidation(msg) == msg = <<"id must be an integer">>

\* C13: for every argument value that is not an integer the resolution fails
\* with the validation error, and it does so before the catalog is indexed.
C13_ValidationBeforeStore ==
    /\ \A v \in -1..11 :
          LET r == Resolve([isInt |-> FALSE, val |-> v])
          IN  r.val = <<>> /\ IsValidation(r.err) /\ r.reads = <<>>
    /\ \A resp \in responses :
          ~resp.req.arg.isInt =>
             /\ resp.env.greeting = <<>>
             /\ Len(resp.env.errors) = 1
             /\ IsValidation(resp.env.errors[1])
             /\ Resolve(resp.req.arg).reads = <<>>

C13_Witness ==
    \E resp \in responses :
        /\ ~resp.req.arg.isInt
        /\ resp.env.errors # <<>>
        /\ lifecycle = "Listening"

\* the requests of the CLI loop that a step adds to those in flight
NewCliRequests == {r \in inflight' \ inflight : r.src = "cli"}

\* C14: a numeric input causes at most one request: http.Post is called once
\* in the step that reads the input and in no other step; when the request
\* cannot be sent (also before the server listens) or the answer cannot be
\* decoded, nothing is sent again, the lifecycle is unchanged and the loop is
\* back at the prompt.
C14_NoRetry ==
    /\ [](Len(post) <= 1)
    /\ [](Cardinality({r \in inflight : r.src = "cli"}) +
          Cardinality({resp \in responses : resp.req.src = "cli"}) <= 1)
    /\ [][post' # post => nInputs' = nInputs + 1]_vars
    /\ [][NewCliRequests # {} =>
             /\ Cardinality(NewCliRequests) = 1
             /\ nInputs' = nInputs + 1
             /\ Len(post') = 1]_vars
    /\ [][(nInputs' = nInputs + 1
             /\ lastStep' \in {"transportError", "decodeError"}) =>
                /\ Len(post') = 1
                /\ inflight' = inflight
                /\ responses' = responses
                /\ lifecycle' = lifecycle
                /\ exitStatus' = exitStatus
                /\ mainPc' = "prompt"]_vars

C14_Witness ==
    /\ lastStep = "transportError"
    /\ lifecycle = "Starting"
    /\ mainPc = "prompt"
    /\ nInputs > 1
    /\ Len(post) = 1

\* the variables of the CLI loop
cliVars == <<mainPc, nInputs, input, lastStep, post, result>>

\* the server listens and the CLI loop waits for input
LoopWaits == Alive /\ lifecycle = "Listening" /\ mainPc = "prompt"

\* the other client has a request to send and none outstanding
ExtClientReady ==
    /\ nExt < MaxExt
    /\ \A q \in inflight : q.src # "ext"
    /\ \A q \in responses : q.req.src # "ext"

\* C15: the listener runs concurrently with the CLI loop: while the loop
\* waits for input, a request arriving in state Listening can be accepted and
\* every accepted request can be answered, and the steps that accept and
\* answer another client's request are no steps of the loop.
C15_ListenerConcurrent ==
    /\ [](\A r \in inflight :
             (Alive /\ lifecycle \in {"Listening", "Draining"}) =>
                ENABLED HandleRequest(r))
    /\ []((LoopWaits /\ ExtClientReady) =>
             \A arg \in ExtArgs : ENABLED ExtRequest(arg))
    /\ [][(\E r \in inflight' \ inflight : r.src = "ext") =>
             UNCHANGED cliVars]_vars
    /\ [][(\E resp \in responses' \ responses : resp.req.src = "ext") =>
             UNCHANGED cliVars]_vars

C15_Witness ==
    /\ lifecycle = "Listening"
    /\ mainPc = "prompt"
    /\ nInputs = 0
    /\ \E resp \in responses : resp.req.src = "ext"

\* the slice an index expression reads
SliceOf(rd) == IF rd.slice = "greetings" THEN greetings ELSE flowers

\* every index expression the resolver evaluates for arg is within its slice
ReadsInRange(arg) ==
    LET rs == Resolve(arg).reads
    IN  \A k \in 1..Len(rs) :
            0 <= rs[k].index /\ rs[k].index < Len(SliceOf(rs[k]))

\* C16: in variant B greetings and flowers have the same length, so for every
\* id that passes the bounds check (which tests Len(greetings) only) the
\* indexes id-1 into greetings and into flowers are both in range: no
\* resolution indexes out of range.
C16_ParallelInRange ==
    /\ Len(flowers) = Len(greetings)
    /\ \A id \in -3..14 : ReadsInRange(IntArg(id))
    /\ \A resp \in responses :
          /\ ReadsInRange(resp.req.arg)
          /\ (variant = "B" /\ resp.env.errors = <<>>) =>
                /\ Len(Resolve(resp.req.arg).reads) = 2
                /\ Len(resp.env.greeting) = 2

C16_Witness ==
    /\ variant = "B"
    /\ \E resp \in responses :
          /\ resp.req.arg = IntArg(10)
          /\ resp.env.errors = <<>>
          /\ Resolve(resp.req.arg).reads =
                <<Read("greetings", 9), Read("flowers", 9)>>

\* C17: a failed read of the input (also end of input) sends no request and
\* does not end the loop: the loop is back at the prompt with the lifecycle
\* unchanged; the only step in which the loop ends and shutdown starts is the
\* one that reads exit.
C17_ReadErrorContinues ==
    /\ [][(nInputs' = nInputs + 1 /\ lastStep' = "readError") =>
             /\ post' = <<>>
             /\ inflight' = inflight
             /\ mainPc' = "prompt"
             /\ lifecycle' = lifecycle
             /\ inShutdown' = inShutdown
             /\ exitStatus' = exitStatus]_vars
    /\ [][(mainPc = "prompt" /\ mainPc' # "prompt") =>
             \/ nInputs' = nInputs + 1 /\ input' = Exit /\ mainPc' = "shutdown"
             \/ mainPc' = "await" /\ lifecycle' = lifecycle
             \/ exitStatus' = "bindFatal"]_vars
    /\ [][inShutdown' # inShutdown =>
             nInputs' = nInputs + 1 /\ input' = Exit]_vars

C17_Witness ==
    /\ lastStep = "readError"
    /\ input = <<>>
    /\ mainPc = "prompt"
    /\ lifecycle = "Listening"
    /\ nInputs > 1

====
